---- MODULE Spec2Model ----
(***************************************************************************)
(* Model of mediapipe/tasks/tools/safetensors_converter.py: the layer     *)
(* classifier (LayerType.get_layer_type), the two name mappers            *)
(* (StablelmMapper, PhiMapper) and the checkpoint loader                  *)
(* (SafetensorsCkptLoader).                                                *)
(*                                                                         *)
(* Three specifications share the definitions of the code:                *)
(*   Spec        the loader: construction, then load_to_actions           *)
(*   SpecMapper  the classifier and the mappers applied to tensor names   *)
(*   SpecReader  _read_tensor_as_numpy applied to tensor descriptors      *)
(*                                                                         *)
(* Python's None is the empty tuple and a present value x is <<x>>, so    *)
(* that optional values of different types can be compared.               *)
(***************************************************************************)
EXTENDS Integers, Sequences, FiniteSets, TLC

VARIABLES
  pc,           \* loader: where the caller of the loader stands
  fs,           \* the file at ckpt_path: whether it exists, and its content
  loader,       \* the fields of the SafetensorsCkptLoader object (self)
  fileLog,      \* every file-system call made so far, in order
  tensor_idx,   \* load_to_actions: position of the for loop in the keys
  actions,      \* load_to_actions: the local list `actions`
  returned,     \* what load_to_actions returned to its caller (None before)
  error,        \* the exception that reached the caller (None if none)
  special_model,\* the model family the constructor was called with
  layer_name,   \* mapper harness: the tensor name under test
  layer_type,   \* mapper harness: result of get_layer_type(layer_name)
  action,       \* mapper harness: result of mapper.map_to_actions(layer_name)
  rewritten,    \* mapper harness: layer_name, then each update_target_name of it
  tensor_info,  \* reader harness: the descriptor handed to the reader
  array         \* reader harness: outcome of _read_tensor_as_numpy

vars == <<pc, fs, loader, fileLog, tensor_idx, actions, returned, error,
          special_model, layer_name, layer_type, action, rewritten, tensor_info, array>>

loaderVars == <<pc, fs, loader, fileLog, tensor_idx, actions, returned, error,
                special_model>>
mapperVars == <<layer_name, layer_type, action, rewritten>>
readerVars == <<tensor_info, array>>

None == <<>>
Some(x) == <<x>>

(***************************************************************************)
(* Bounds of the model.                                                    *)
(***************************************************************************)
MaxLayer == 1      \* layer indices 0..MaxLayer in "model.layers.N."
MaxRewrites == 2   \* how often the harness re-applies update_target_name
MaxKeys == 2       \* keys in the metadata of a checkpoint file
MaxRank == 3       \* number of dimensions of a tensor shape
MaxDim == 2        \* size of one dimension of a tensor shape

(***************************************************************************)
(* Python string operations.                                               *)
(***************************************************************************)
\* sub in s
Contains(s, sub) ==
  \E i \in 1..(Len(s) - Len(sub) + 1) : SubSeq(s, i, i + Len(sub) - 1) = sub

\* s.endswith(suf)
EndsWith(s, suf) ==
  /\ Len(s) >= Len(suf)
  /\ SubSeq(s, Len(s) - Len(suf) + 1, Len(s)) = suf

\* the position of the leftmost occurrence of sub in s (0 if there is none)
Find(s, sub) ==
  LET at == {i \in 1..(Len(s) - Len(sub) + 1) : SubSeq(s, i, i + Len(sub) - 1) = sub}
  IN IF at = {} THEN 0 ELSE CHOOSE i \in at : \A j \in at : i <= j

\* s.replace(old, new): every occurrence, leftmost first, without overlap
RECURSIVE Replace(_, _, _)
Replace(s, old, new) ==
  LET i == Find(s, old)
  IN IF i = 0 THEN s
     ELSE SubSeq(s, 1, i - 1) \o new
            \o Replace(SubSeq(s, i + Len(old), Len(s)), old, new)

(***************************************************************************)
(* LayerType.get_layer_type                                                *)
(***************************************************************************)
ffn_layers == {"mlp"}
attn_layers == {"self_attn"}
emb_layers == {"embed_tokens", "lm_head"}
layer_norms == {"input_layernorm", "post_attention_layernorm", "final_layernorm"}

\* any(sub_name in layer_name for sub_name in keywords)
AnyIn(keywords, name) == \E sub_name \in keywords : Contains(name, sub_name)

get_layer_type_ffn_first(name) ==
  IF AnyIn(ffn_layers, name) THEN "FEEDFORWARD"
  ELSE IF AnyIn(attn_layers, name) THEN "ATTENTION"
  ELSE IF AnyIn(emb_layers, name) THEN "EMBEDDING"
  ELSE IF AnyIn(layer_norms, name) THEN "LAYER_NORM"
  ELSE "NONE"

get_layer_type(name) ==
  IF AnyIn(attn_layers, name) THEN "ATTENTION"
  ELSE IF AnyIn(ffn_layers, name) THEN "FEEDFORWARD"
  ELSE IF AnyIn(emb_layers, name) THEN "EMBEDDING"
  ELSE IF AnyIn(layer_norms, name) THEN "LAYER_NORM"
  ELSE "NONE"

(***************************************************************************)
(* StablelmMapper                                                          *)
(***************************************************************************)
NON_QUANTIZED_LAYERS ==
  {"model.norm.weight", "input_layernorm", "post_attention_layernorm"}

\* The chain of str.replace calls, applied left to right.
RECURSIVE ReplaceAll(_, _)
ReplaceAll(name, rules) ==
  IF rules = <<>> THEN name
  ELSE ReplaceAll(Replace(name, rules[1][1], rules[1][2]), Tail(rules))

StablelmRules ==
  << <<"model.layers.", "params.lm.transformer.x_layers_">>,
     <<"mlp.up_proj", "ff_layer.ffn_layer1">>,
     <<"mlp.down_proj", "ff_layer.ffn_layer2">>,
     <<"mlp.gate_proj", "ff_layer.ffn_layer1_gate">>,
     <<"input_layernorm", "pre_layer_norm">>,
     <<"pre_layer_norm.weight", "pre_layer_norm.scale">>,
     <<"post_attention_layernorm", "post_layer_norm">>,
     <<"post_layer_norm.weight", "post_layer_norm.scale">>,
     <<"self_attn.q_proj", "self_attention.q">>,
     <<"self_attn.k_proj", "self_attention.k">>,
     <<"self_attn.v_proj", "self_attention.v">>,
     <<"self_attn.o_proj", "self_attention.post">>,
     <<"model.embed_tokens", "params.lm.token_embedding">>,
     <<"model.norm", "params.lm.final_ln">>,
     <<"final_ln.weight", "final_ln.scale">>,
     <<"lm_head", "params.lm.softmax.logits_ffn">>,
     <<".weight", ".w">> >>

Stablelm_update_target_name(target_name) == ReplaceAll(target_name, StablelmRules)

\* map_to_actions as it would be if layer norms were not exempted
Stablelm_map_to_actions_no_exempt(m, name) ==
  LET type == get_layer_type(name)
      quantized == EndsWith(name, ".weight")
  IN [tensor_name |-> name,
      target_name |-> Stablelm_update_target_name(name),
      quantize_axis |-> IF quantized THEN Some(<<0>>) ELSE None,
      quantize_bits |->
        IF ~quantized THEN None
        ELSE IF type = "FEEDFORWARD" THEN Some(m.feedforward_quant_bits)
        ELSE IF type = "ATTENTION" THEN Some(m.attention_quant_bits)
        ELSE IF type = "EMBEDDING" THEN Some(m.embedding_quant_bits)
        ELSE None,
      pack_dim |-> 0,
      tensor_value |-> None]

Stablelm_map_to_actions(m, name) ==
  LET type == get_layer_type(name)
      quantized == type # "LAYER_NORM" /\ EndsWith(name, ".weight")
  IN [tensor_name |-> name,
      target_name |-> Stablelm_update_target_name(name),
      quantize_axis |-> IF quantized THEN Some(<<0>>) ELSE None,
      quantize_bits |->
        IF ~quantized THEN None
        ELSE IF type = "FEEDFORWARD" THEN Some(m.feedforward_quant_bits)
        ELSE IF type = "ATTENTION" THEN Some(m.attention_quant_bits)
        ELSE IF type = "EMBEDDING" THEN Some(m.embedding_quant_bits)
        ELSE None,
      pack_dim |-> 0,
      tensor_value |-> None]

(***************************************************************************)
(* PhiMapper                                                               *)
(***************************************************************************)
\* the feed-forward rules as they would be if the destination kept "mlp"
PhiFeedforwardRules_keeps_mlp ==
  << <<".weight", ".linear.w">>,
     <<".bias", ".bias.b">>,
     <<"mlp.fc1", "mlp.ffn_layer1">>,
     <<"mlp.fc2", "mlp.ffn_layer2">> >>

PhiFeedforwardRules ==
  << <<".weight", ".linear.w">>,
     <<".bias", ".bias.b">>,
     <<"mlp.fc1", "ff_layer.ffn_layer1">>,
     <<"mlp.fc2", "ff_layer.ffn_layer2">> >>

PhiAttentionRules ==
  << <<".weight", ".linear.w">>,
     <<".bias", ".bias.b">>,
     <<"self_attn.q_proj", "self_attention.q">>,
     <<"self_attn.k_proj", "self_attention.k">>,
     <<"self_attn.v_proj", "self_attention.v">>,
     <<"self_attn.dense", "self_attention.post">> >>

PhiEmbeddingRules ==
  << <<"model.embed_tokens", "params.lm.token_embedding">>,
     <<"lm_head", "params.lm.softmax.logits_ffn">>,
     <<"logits_ffn.weight", "logits_ffn.linear.w">>,
     <<"logits_ffn.bias", "logits_ffn.bias.b">> >>

PhiLayerNormRules ==
  << <<"input_layernorm", "pre_layer_norm">>,
     <<"pre_layer_norm.weight", "pre_layer_norm.scale">>,
     <<"model.final_layernorm", "params.lm.final_ln">>,
     <<"final_ln.weight", "final_ln.scale">> >>

Phi_update_target_name(target_name) ==
  LET t1 == Replace(target_name, "model.layers.", "params.lm.transformer.x_layers_")
      type == get_layer_type(t1)
      t2 == IF type = "FEEDFORWARD" THEN ReplaceAll(t1, PhiFeedforwardRules)
            ELSE IF type = "ATTENTION" THEN ReplaceAll(t1, PhiAttentionRules)
            ELSE IF type = "EMBEDDING" THEN ReplaceAll(t1, PhiEmbeddingRules)
            ELSE IF type = "LAYER_NORM" THEN ReplaceAll(t1, PhiLayerNormRules)
            ELSE t1
  IN Replace(t2, ".weight", ".w")

\* map_to_actions with the attention and feed-forward bit-widths exchanged
Phi_map_to_actions_swapped_bits(m, name) ==
  LET type == get_layer_type(name)
      quantized == type # "LAYER_NORM" /\ EndsWith(name, ".weight")
  IN [tensor_name |-> name,
      target_name |-> Phi_update_target_name(name),
      quantize_axis |-> IF quantized THEN Some(<<0>>) ELSE None,
      quantize_bits |->
        IF ~quantized THEN None
        ELSE IF type = "FEEDFORWARD" THEN Some(m.attention_quant_bits)
        ELSE IF type = "ATTENTION" THEN Some(m.feedforward_quant_bits)
        ELSE IF type = "EMBEDDING" THEN Some(m.embedding_quant_bits)
        ELSE None,
      pack_dim |-> 0,
      tensor_value |-> None]

Phi_map_to_actions(m, name) ==
  LET type == get_layer_type(name)
      quantized == type # "LAYER_NORM" /\ EndsWith(name, ".weight")
  IN [tensor_name |-> name,
      target_name |-> Phi_update_target_name(name),
      quantize_axis |-> IF quantized THEN Some(<<0>>) ELSE None,
      quantize_bits |->
        IF ~quantized THEN None
        ELSE IF type = "FEEDFORWARD" THEN Some(m.feedforward_quant_bits)
        ELSE IF type = "ATTENTION" THEN Some(m.attention_quant_bits)
        ELSE IF type = "EMBEDDING" THEN Some(m.embedding_quant_bits)
        ELSE None,
      pack_dim |-> 0,
      tensor_value |-> None]

\* self.mapper.map_to_actions / update_target_name: dispatch on the class
map_to_actions(m, name) ==
  IF m.cls = "StablelmMapper" THEN Stablelm_map_to_actions(m, name)
  ELSE Phi_map_to_actions(m, name)

update_target_name(m, name) ==
  IF m.cls = "StablelmMapper" THEN Stablelm_update_target_name(name)
  ELSE Phi_update_target_name(name)

\* The mapper objects __init__ can build: LayerActionMapperBase keeps the
\* three bit-widths (8 or 4) it is given.
BitWidths == {4, 8}
MapperClasses == {"StablelmMapper", "PhiMapper"}
NewMapper(cls, attention_quant_bits, feedforward_quant_bits, embedding_quant_bits) ==
  [cls |-> cls,
   attention_quant_bits |-> attention_quant_bits,
   feedforward_quant_bits |-> feedforward_quant_bits,
   embedding_quant_bits |-> embedding_quant_bits]
Mappers ==
  {NewMapper(c, a, f, e) : c \in MapperClasses, a \in BitWidths,
                           f \in BitWidths, e \in BitWidths}

(***************************************************************************)
(* SafetensorsCkptLoader._read_tensor_as_numpy                             *)
(***************************************************************************)
DTYPE_MAP == [F16 |-> "float16", BF16 |-> "bfloat16", F32 |-> "float32"]

\* bytes per element of a torch dtype (torch.frombuffer)
ItemSize(torch_dtype) == IF torch_dtype = "float32" THEN 4 ELSE 2

RECURSIVE Product(_)
Product(shape) == IF shape = <<>> THEN 1 ELSE Head(shape) * Product(Tail(shape))

\* torch.Tensor.t() followed by .contiguous(): tensors of 0 or 1 dimensions
\* are returned as they are, a 2-D tensor has its two dimensions exchanged
\* and its elements laid out again row by row; more dimensions are refused.
Transpose(tensor) ==
  IF Len(tensor.shape) < 2 THEN tensor
  ELSE LET rows == tensor.shape[1]
           cols == tensor.shape[2]
       IN [tensor EXCEPT
             !.shape = <<cols, rows>>,
             !.data = [k \in 1..(rows * cols) |->
                         tensor.data[((k - 1) % rows) * cols + ((k - 1) \div rows) + 1]]]

TransposeAllowed(shape) == Len(shape) <= 2

\* .float() as it would be if the stored element type were kept
Float_keeps_dtype(tensor) == tensor

\* torch.Tensor.float(): the same elements as 32-bit floats
Float(tensor) == [tensor EXCEPT !.dtype = "float32"]

\* The outcome of the call: the array, or the exception raised, and the
\* file operations made on the way. Element k of the stored tensor is
\* written k, so the layout of the result can be read off its data.
read_tensor_as_numpy(info) ==
  IF info.dtype \notin DOMAIN DTYPE_MAP
  THEN [status |-> "raised", error |-> "ValueError: dtype is not supported",
        ops |-> <<"open">>, value |-> None]
  ELSE
    LET nbytes == info.data_offsets[2] - info.data_offsets[1]
        size == ItemSize(DTYPE_MAP[info.dtype])
        numel == nbytes \div size
        ops == <<"open", "seek", "read">>
    IN IF nbytes <= 0 \/ nbytes % size # 0
       THEN [status |-> "raised", error |-> "ValueError: frombuffer",
             ops |-> ops, value |-> None]
       ELSE IF Product(info.shape) # numel
       THEN [status |-> "raised", error |-> "RuntimeError: reshape",
             ops |-> ops, value |-> None]
       ELSE IF ~TransposeAllowed(info.shape)
       THEN [status |-> "raised",
             error |-> "RuntimeError: t() expects a tensor with <= 2 dimensions",
             ops |-> ops, value |-> None]
       ELSE [status |-> "ok", error |-> "", ops |-> ops,
             value |-> Some(Transpose(Float(
                         [shape |-> info.shape,
                          dtype |-> DTYPE_MAP[info.dtype],
                          data |-> [k \in 1..numel |-> k]])))]

(***************************************************************************)
(* SafetensorsCkptLoader.__init__                                          *)
(***************************************************************************)
\* Outcome of the constructor on the file `file`: the object built (None
\* when an exception leaves the constructor), the exception, and the file
\* operations made. CkptLoaderBase.__init__ only keeps its arguments.
NewLoader(model, m, file) ==
  [special_model |-> model, mapper |-> m, layers_info |-> file.entries]

MapperClassOf(model) ==
  IF model \in {"STABLELM_4E1T_3B"} THEN Some("StablelmMapper")
  ELSE IF model \in {"PHI_2"} THEN Some("PhiMapper")
  ELSE None

OpenAndParse(file, model, m) ==
  IF ~file.exists
  THEN [loader |-> None, error |-> Some("ValueError: does not exists"),
        ops |-> <<"exists">>]
  ELSE IF ~file.well_formed
  THEN [loader |-> None, error |-> Some("JSONDecodeError"),
        ops |-> <<"exists", "open", "read", "read">>]
  ELSE [loader |-> Some(NewLoader(model, m, file)), error |-> None,
        ops |-> <<"exists", "open", "read", "read">>]

\* the constructor as it would be if the file were read before the model
\* family is looked at
loader_init_file_first(file, model, a, f, e) ==
  LET cls == MapperClassOf(model)
      read == OpenAndParse(file, model,
                           NewMapper(IF cls = None THEN "" ELSE cls[1], a, f, e))
  IN IF read.error # None THEN read
     ELSE IF cls = None
     THEN [loader |-> None, error |-> Some("ValueError: Unknown special model"),
           ops |-> read.ops]
     ELSE read

loader_init(file, model, a, f, e) ==
  LET cls == MapperClassOf(model)
  IN IF cls = None
     THEN [loader |-> None, error |-> Some("ValueError: Unknown special model"),
           ops |-> <<>>]
     ELSE OpenAndParse(file, model, NewMapper(cls[1], a, f, e))

(***************************************************************************)
(* SafetensorsCkptLoader.load_to_actions: one pass of the for loop         *)
(***************************************************************************)
TensorOps(ops, name) == [i \in 1..Len(ops) |-> <<ops[i], name>>]

\* the loop body as it would be if tensors that are not quantized were
\* skipped like the names the mapper drops
loop_body_skips_unquantized(self, entry, acts) ==
  IF entry.name = "__metadata__"
  THEN [status |-> "continue", actions |-> acts, ops |-> <<>>, error |-> None]
  ELSE
    LET act == map_to_actions(self.mapper, entry.name)
        read == read_tensor_as_numpy(entry.info)
    IN IF act.quantize_axis = None
       THEN [status |-> "continue", actions |-> acts, ops |-> <<>>, error |-> None]
       ELSE IF read.status = "raised"
       THEN [status |-> "raised", actions |-> <<>>,
             ops |-> TensorOps(read.ops, entry.name), error |-> Some(read.error)]
       ELSE [status |-> "continue",
             actions |-> Append(acts, [act EXCEPT !.tensor_value = read.value]),
             ops |-> TensorOps(read.ops, entry.name), error |-> None]

\* the loop body as it would be if a tensor that cannot be read were
\* skipped and the loop went on
loop_body_swallows_error(self, entry, acts) ==
  IF entry.name = "__metadata__"
  THEN [status |-> "continue", actions |-> acts, ops |-> <<>>, error |-> None]
  ELSE
    LET act == map_to_actions(self.mapper, entry.name)
        read == read_tensor_as_numpy(entry.info)
    IN IF read.status = "raised"
       THEN [status |-> "continue", actions |-> acts,
             ops |-> TensorOps(read.ops, entry.name), error |-> None]
       ELSE [status |-> "continue",
             actions |-> Append(acts, [act EXCEPT !.tensor_value = read.value]),
             ops |-> TensorOps(read.ops, entry.name), error |-> None]

\* map_to_actions never returns None, so `if action is None: continue` is
\* never taken; an exception of the reader leaves the function, and its
\* local list with it.
loop_body(self, entry, acts) ==
  IF entry.name = "__metadata__"
  THEN [status |-> "continue", actions |-> acts, ops |-> <<>>, error |-> None]
  ELSE
    LET act == map_to_actions(self.mapper, entry.name)
        read == read_tensor_as_numpy(entry.info)
    IN IF read.status = "raised"
       THEN [status |-> "raised", actions |-> <<>>,
             ops |-> TensorOps(read.ops, entry.name), error |-> Some(read.error)]
       ELSE [status |-> "continue",
             actions |-> Append(acts, [act EXCEPT !.tensor_value = read.value]),
             ops |-> TensorOps(read.ops, entry.name), error |-> None]

(***************************************************************************)
(* Inputs: checkpoint files                                                *)
(***************************************************************************)
DTypes == {"F16", "BF16", "F32", "I8"}

\* bytes per element as stored in the file (I8 is one byte)
FileItemSize(dtype) ==
  IF dtype \in DOMAIN DTYPE_MAP THEN ItemSize(DTYPE_MAP[dtype]) ELSE 1

\* the metadata value of a tensor whose bytes start at `start`
Descriptor(dtype, shape, start) ==
  [dtype |-> dtype, shape |-> shape,
   data_offsets |-> <<start, start + Product(shape) * FileItemSize(dtype)>>]

SpecialModels == {"STABLELM_4E1T_3B", "PHI_2", "GEMMA_2B"}

TensorKeyNames ==
  {"model.norm.weight", "model.layers.0.self_attn.q_proj.weight", "lm_head.bias"}

SampleTensors ==
  { <<"F32", <<1, 2>> >>, <<"F16", <<2>> >>, <<"BF16", <<>> >>,
    <<"I8", <<2>> >>, <<"F32", <<1, 2, 1>> >> }

RawEntries ==
  {[name |-> "__metadata__", dtype |-> "", shape |-> <<>>]} \cup
  {[name |-> n, dtype |-> t[1], shape |-> t[2]] : n \in TensorKeyNames, t \in SampleTensors}

\* the metadata of a file whose tensors are stored one after the other
RECURSIVE Layout(_, _)
Layout(raw, start) ==
  IF raw = <<>> THEN <<>>
  ELSE IF raw[1].name = "__metadata__"
  THEN <<[name |-> "__metadata__", info |-> [format |-> "pt"]]>>
         \o Layout(Tail(raw), start)
  ELSE LET d == Descriptor(raw[1].dtype, raw[1].shape, start)
       IN <<[name |-> raw[1].name, info |-> d]>>
            \o Layout(Tail(raw), d.data_offsets[2])

\* JSON objects: the keys are distinct
Containers ==
  {Layout(raw, 0) :
     raw \in UNION {{r \in [1..n -> RawEntries] :
                       \A i, j \in 1..n : i # j => r[i].name # r[j].name} :
                    n \in 0..MaxKeys}}

NoFile == [exists |-> FALSE, well_formed |-> FALSE, entries |-> <<>>]
Files ==
  {NoFile, [exists |-> TRUE, well_formed |-> FALSE, entries |-> <<>>]} \cup
  {[exists |-> TRUE, well_formed |-> TRUE, entries |-> c] : c \in Containers}

(***************************************************************************)
(* Inputs: tensor names                                                    *)
(***************************************************************************)
LayerPrefixes == {"model.layers." \o ToString(i) \o "." : i \in 0..MaxLayer}

StablelmLayerParts ==
  {"input_layernorm", "post_attention_layernorm",
   "self_attn.q_proj", "self_attn.k_proj", "self_attn.v_proj", "self_attn.o_proj",
   "mlp.up_proj", "mlp.down_proj", "mlp.gate_proj"}

PhiLayerParts ==
  {"input_layernorm",
   "self_attn.q_proj", "self_attn.k_proj", "self_attn.v_proj", "self_attn.dense",
   "mlp.fc1", "mlp.fc2"}

ParamSuffixes == {".weight", ".bias"}

\* the tensor names of a StableLM checkpoint
StablelmNames ==
  {"model.embed_tokens.weight", "model.norm.weight", "model.norm.bias",
   "lm_head.weight"} \cup
  {p \o s \o x : p \in LayerPrefixes, s \in StablelmLayerParts, x \in ParamSuffixes}

\* the tensor names of a Phi-2 checkpoint
PhiNames ==
  {"model.embed_tokens.weight", "model.final_layernorm.weight",
   "model.final_layernorm.bias", "lm_head.weight", "lm_head.bias"} \cup
  {p \o s \o x : p \in LayerPrefixes, s \in PhiLayerParts, x \in ParamSuffixes}

Keywords == ffn_layers \cup attn_layers \cup emb_layers \cup layer_norms

\* names that carry the keywords of two roles, in either order
MixedNames == {k1 \o "." \o k2 \o ".weight" : k1, k2 \in Keywords}

\* names outside both conventions
OtherNames ==
  {p \o s \o x : p \in {"", "model."},
                 s \in {"norm", "embed_tokens", "lm_head", "final_layernorm",
                        "rotary_emb", "mlp.fc1", "self_attn.dense"},
                 x \in ParamSuffixes \cup {""}}

Names == StablelmNames \cup PhiNames \cup MixedNames \cup OtherNames

(***************************************************************************)
(* Spec: the loader                                                        *)
(***************************************************************************)
LogOps(ops, who) == [i \in 1..Len(ops) |-> <<ops[i], who>>]

HarnessIdle ==
  /\ layer_name = "" /\ layer_type = None /\ action = None /\ rewritten = <<>>
  /\ tensor_info = None /\ array = None

Init ==
  /\ pc = "new"
  /\ fs \in Files
  /\ loader = None
  /\ fileLog = <<>>
  /\ tensor_idx = 0
  /\ actions = <<>>
  /\ returned = None
  /\ error = None
  /\ special_model = ""
  /\ HarnessIdle

\* SafetensorsCkptLoader(ckpt_path, is_symmetric, a, f, e, special_model)
Construct ==
  /\ pc = "new"
  /\ \E model \in SpecialModels, a \in BitWidths, f \in BitWidths, e \in BitWidths :
       LET r == loader_init(fs, model, a, f, e)
       IN /\ special_model' = model
          /\ loader' = r.loader
          /\ error' = r.error
          /\ fileLog' = fileLog \o LogOps(r.ops, "__init__")
          /\ pc' = IF r.error = None THEN "ready" ELSE "init_raised"
  /\ UNCHANGED <<fs, tensor_idx, actions, returned>>
  /\ UNCHANGED <<mapperVars, readerVars>>

\* loader.load_to_actions() is called: actions = []
LoadToActions ==
  /\ pc = "ready"
  /\ pc' = "loop"
  /\ tensor_idx' = 1
  /\ actions' = <<>>
  /\ UNCHANGED <<fs, loader, fileLog, returned, error, special_model>>
  /\ UNCHANGED <<mapperVars, readerVars>>

\* one pass of `for tensor_name in tensor_names`
LoopIteration ==
  /\ pc = "loop"
  /\ tensor_idx <= Len(loader[1].layers_info)
  /\ LET r == loop_body(loader[1], loader[1].layers_info[tensor_idx], actions)
     IN /\ actions' = r.actions
        /\ fileLog' = fileLog \o r.ops
        /\ error' = r.error
        /\ pc' = IF r.status = "raised" THEN "raised" ELSE "loop"
        /\ tensor_idx' = IF r.status = "raised" THEN tensor_idx ELSE tensor_idx + 1
  /\ UNCHANGED <<fs, loader, returned, special_model>>
  /\ UNCHANGED <<mapperVars, readerVars>>

\* return actions
Return ==
  /\ pc = "loop"
  /\ tensor_idx > Len(loader[1].layers_info)
  /\ returned' = Some(actions)
  /\ pc' = "returned"
  /\ UNCHANGED <<fs, loader, fileLog, tensor_idx, actions, error, special_model>>
  /\ UNCHANGED <<mapperVars, readerVars>>

Next == Construct \/ LoadToActions \/ LoopIteration \/ Return

Spec == Init /\ [][Next]_vars

(***************************************************************************)
(* SpecMapper: the classifier and the mappers on tensor names              *)
(***************************************************************************)
InitMapper ==
  /\ pc = "mapper"
  /\ fs = NoFile
  /\ \E m \in Mappers :
       /\ special_model = (IF m.cls = "PhiMapper" THEN "PHI_2" ELSE "STABLELM_4E1T_3B")
       /\ loader = Some(NewLoader(special_model, m, NoFile))
  /\ fileLog = <<>> /\ tensor_idx = 0 /\ actions = <<>>
  /\ returned = None /\ error = None
  /\ layer_name \in Names
  /\ layer_type = None
  /\ action = None
  /\ rewritten = <<layer_name>>
  /\ tensor_info = None /\ array = None

CallGetLayerType ==
  /\ layer_type = None
  /\ layer_type' = Some(get_layer_type(layer_name))
  /\ UNCHANGED <<layer_name, action, rewritten>>
  /\ UNCHANGED <<loaderVars, readerVars>>

CallMapToActions ==
  /\ action = None
  /\ action' = Some(map_to_actions(loader[1].mapper, layer_name))
  /\ UNCHANGED <<layer_name, layer_type, rewritten>>
  /\ UNCHANGED <<loaderVars, readerVars>>

\* update_target_name applied to its own last result
CallUpdateTargetName ==
  /\ Len(rewritten) <= MaxRewrites
  /\ rewritten' = Append(rewritten,
                         update_target_name(loader[1].mapper, rewritten[Len(rewritten)]))
  /\ UNCHANGED <<layer_name, layer_type, action>>
  /\ UNCHANGED <<loaderVars, readerVars>>

NextMapper == CallGetLayerType \/ CallMapToActions \/ CallUpdateTargetName

SpecMapper == InitMapper /\ [][NextMapper]_vars

(***************************************************************************)
(* SpecReader: _read_tensor_as_numpy on tensor descriptors                 *)
(***************************************************************************)
Shapes == UNION {[1..r -> 1..MaxDim] : r \in 0..MaxRank}
StartOffsets == {0, 8}

InitReader ==
  /\ pc = "reader"
  /\ fs = NoFile /\ loader = None
  /\ fileLog = <<>> /\ tensor_idx = 0 /\ actions = <<>>
  /\ returned = None /\ error = None /\ special_model = ""
  /\ layer_name = "" /\ layer_type = None /\ action = None /\ rewritten = <<>>
  /\ \E dtype \in DTypes, shape \in Shapes, start \in StartOffsets :
       tensor_info = Some(Descriptor(dtype, shape, start))
  /\ array = None

CallReadTensor ==
  /\ array = None
  /\ array' = Some(read_tensor_as_numpy(tensor_info[1]))
  /\ UNCHANGED tensor_info
  /\ UNCHANGED <<loaderVars, mapperVars>>

NextReader == CallReadTensor

SpecReader == InitReader /\ [][NextReader]_vars

(***************************************************************************)
(* Properties                                                              *)
(***************************************************************************)
Mapper == loader[1].mapper
Role == layer_type[1]
Act == action[1]

\* C1: every action map_to_actions returns, and every action of the
\* sequence load_to_actions returns, has quantize_axis and quantize_bits
\* both set or both None.
C1_AxisAndBitsTogether ==
  /\ action # None =>
       ((Act.quantize_axis = None) <=> (Act.quantize_bits = None))
  /\ returned # None =>
       \A i \in 1..Len(returned[1]) :
         (returned[1][i].quantize_axis = None) <=> (returned[1][i].quantize_bits = None)

\* C5: StablelmMapper maps "model.norm.weight" to "params.lm.final_ln.scale",
\* the name is classified LAYER_NORM, and its quantize_axis is None.
C5_ModelNormWeight ==
  (/\ layer_name = "model.norm.weight"
   /\ pc = "mapper" /\ Mapper.cls = "StablelmMapper"
   /\ action # None /\ layer_type # None)
  => /\ Act.target_name = "params.lm.final_ln.scale"
     /\ Role = "LAYER_NORM"
     /\ Act.quantize_axis = None

ConfiguredBits(m, role) ==
  IF role = "ATTENTION" THEN m.attention_quant_bits
  ELSE IF role = "FEEDFORWARD" THEN m.feedforward_quant_bits
  ELSE m.embedding_quant_bits

\* C6: for both mappers, a name that ends with ".weight" and is classified
\* ATTENTION, FEEDFORWARD or EMBEDDING gets quantize_axis = [0] and the
\* bit-width configured for its own role.
C6_QuantizedWeights ==
  (/\ action # None /\ layer_type # None
   /\ EndsWith(layer_name, ".weight")
   /\ Role \in {"ATTENTION", "FEEDFORWARD", "EMBEDDING"})
  => /\ Act.quantize_axis = Some(<<0>>)
     /\ Act.quantize_bits = Some(ConfiguredBits(Mapper, Role))

\* C6 witness: a feed-forward weight under PhiMapper, with the attention
\* bit-width different from the feed-forward one.
C6_Witness ==
  /\ action # None /\ layer_type = Some("FEEDFORWARD")
  /\ layer_name = "model.layers.0.mlp.fc1.weight"
  /\ Mapper.cls = "PhiMapper"
  /\ Mapper.feedforward_quant_bits = 4 /\ Mapper.attention_quant_bits = 8
  /\ Act.quantize_axis = Some(<<0>>) /\ Act.quantize_bits = Some(4)

\* C7: for both mappers, a name classified LAYER_NORM, with or without the
\* ".weight" suffix, gets quantize_axis = None and quantize_bits = None.
C7_LayerNormNotQuantized ==
  (action # None /\ layer_type = Some("LAYER_NORM"))
  => (Act.quantize_axis = None /\ Act.quantize_bits = None)

\* C7 witness: a layer-norm weight under StablelmMapper, left unquantized.
C7_Witness ==
  /\ action # None /\ layer_type = Some("LAYER_NORM")
  /\ layer_name = "model.layers.0.input_layernorm.weight"
  /\ Mapper.cls = "StablelmMapper"
  /\ Act.quantize_axis = None /\ Act.quantize_bits = None

\* C8 as stated: for every tensor name, rewriting the rewritten name again
\* changes nothing.
C8_IdempotentOnEveryName ==
  Len(rewritten) >= 3 => rewritten[3] = rewritten[2]

OwnFamilyName ==
  \/ Mapper.cls = "StablelmMapper" /\ layer_name \in StablelmNames
  \/ Mapper.cls = "PhiMapper" /\ layer_name \in PhiNames

\* C8 amended: for the tensor names of the mapper's own checkpoint
\* convention, rewriting the rewritten name again changes nothing.
C8_IdempotentOnFamilyNames ==
  (pc = "mapper" /\ OwnFamilyName)
  => \A i \in 2..(Len(rewritten) - 1) : rewritten[i + 1] = rewritten[i]

\* C8 witness: a Phi-2 bias rewritten twice; the first rewrite changed it,
\* the second did not.
C8_Witness ==
  /\ pc = "mapper" /\ Mapper.cls = "PhiMapper"
  /\ layer_name = "model.layers.0.mlp.fc1.bias"
  /\ Len(rewritten) >= 3
  /\ rewritten[2] = "params.lm.transformer.x_layers_0.ff_layer.ffn_layer1.bias.b"
  /\ rewritten[3] = rewritten[2]

\* C10: get_layer_type returns the first role, in the order ATTENTION,
\* FEEDFORWARD, EMBEDDING, LAYER_NORM, one of whose keywords occurs in the
\* name, wherever it occurs, and NONE exactly when no keyword occurs.
C10_Priority ==
  layer_type # None =>
    LET att == \E k \in attn_layers : Contains(layer_name, k)
        ffn == \E k \in ffn_layers : Contains(layer_name, k)
        emb == \E k \in emb_layers : Contains(layer_name, k)
        nrm == \E k \in layer_norms : Contains(layer_name, k)
    IN /\ (Role = "ATTENTION") <=> att
       /\ (Role = "FEEDFORWARD") <=> (~att /\ ffn)
       /\ (Role = "EMBEDDING") <=> (~att /\ ~ffn /\ emb)
       /\ (Role = "LAYER_NORM") <=> (~att /\ ~ffn /\ ~emb /\ nrm)
       /\ (Role = "NONE") <=> (~att /\ ~ffn /\ ~emb /\ ~nrm)

\* C10 witness: a name whose feed-forward keyword comes before its
\* attention keyword is classified ATTENTION.
C10_Witness ==
  /\ layer_name = "mlp.self_attn.weight"
  /\ layer_type = Some("ATTENTION")

\* the dimensions of a shape in the opposite order
Reverse(shape) == [i \in 1..Len(shape) |-> shape[Len(shape) + 1 - i]]

Info == tensor_info[1]
Read == array[1]
SupportedDType == Info.dtype \in {"F16", "BF16", "F32"}

\* C9 as stated: for every supported dtype the reader returns an array of
\* shape reverse(S) when S has 2 dimensions and of shape S otherwise, with
\* 32-bit float elements.
C9_ShapeForEveryRank ==
  (array # None /\ SupportedDType)
  => /\ Read.status = "ok"
     /\ Read.value # None
     /\ Read.value[1].shape =
          (IF Len(Info.shape) = 2 THEN Reverse(Info.shape) ELSE Info.shape)
     /\ Read.value[1].dtype = "float32"

\* C9 amended: for every supported dtype and a shape S of at most 2
\* dimensions the reader returns an array of 32-bit floats, of shape
\* reverse(S) when S has 2 dimensions and S when it has 0 or 1; for 3 or
\* more dimensions it raises torch's error of t() and returns no array.
C9_ShapeUpToTwoDimensions ==
  (array # None /\ SupportedDType)
  => IF Len(Info.shape) <= 2
     THEN /\ Read.status = "ok"
          /\ Read.value # None
          /\ Read.value[1].shape =
               (IF Len(Info.shape) = 2 THEN Reverse(Info.shape) ELSE Info.shape)
          /\ Read.value[1].dtype = "float32"
     ELSE /\ Read.status = "raised"
          /\ Read.error = "RuntimeError: t() expects a tensor with <= 2 dimensions"
          /\ Read.value = None

\* C9 witness: a 1 x 2 tensor of 16-bit floats is returned as a 2 x 1 array
\* of 32-bit floats.
C9_Witness ==
  /\ array # None
  /\ Info.dtype = "F16" /\ Info.shape = <<1, 2>>
  /\ Read.status = "ok"
  /\ Read.value[1].shape = <<2, 1>> /\ Read.value[1].dtype = "float32"

Keys == loader[1].layers_info
TensorPositions == {i \in 1..Len(Keys) : Keys[i].name # "__metadata__"}

\* C2 as stated: the number of actions returned is the number of metadata
\* keys minus one (looked at for the files that hold a tensor).
C2_CountIsKeysMinusOne ==
  (pc = "returned" /\ TensorPositions # {}) => Len(returned[1]) = Len(Keys) - 1

\* C2 amended: whenever load_to_actions returns, the number of actions is
\* the number of keys other than "__metadata__" (all the keys when the file
\* has no such key), one action per such key.
C2_CountIsTensorKeys ==
  pc = "returned"
  => /\ Len(returned[1]) = Cardinality(TensorPositions)
     /\ \A i \in TensorPositions :
          Cardinality({j \in 1..Len(returned[1]) :
                         returned[1][j].tensor_name = Keys[i].name}) = 1

\* C2 witness: a file with the reserved key and one tensor yields one action.
C2_Witness ==
  /\ pc = "returned"
  /\ Len(Keys) = 2 /\ Keys[1].name = "__metadata__"
  /\ Len(returned[1]) = 1

KnownModels == {"STABLELM_4E1T_3B", "PHI_2"}

\* C3: a constructor called with an unknown model family raises the
\* configuration error and has made no file operation: the path is not
\* tested for existence, opened or read, whatever the file is.
C3_UnknownModelNoFileAccess ==
  (pc # "new" /\ pc # "mapper" /\ pc # "reader" /\ special_model \notin KnownModels)
  => /\ pc = "init_raised"
     /\ error = Some("ValueError: Unknown special model")
     /\ loader = None
     /\ fileLog = <<>>

\* C3 witness: the unknown family is rejected although the file is missing,
\* which the constructor would otherwise report.
C3_Witness ==
  /\ pc = "init_raised" /\ special_model = "GEMMA_2B"
  /\ ~fs.exists
  /\ error = Some("ValueError: Unknown special model")
  /\ fileLog = <<>>

BadDType(i) == Keys[i].info.dtype \notin {"F16", "BF16", "F32"}
HasBadDType == loader # None /\ \E i \in TensorPositions : BadDType(i)
FirstBadDType == CHOOSE i \in TensorPositions :
                   BadDType(i) /\ \A j \in TensorPositions : BadDType(j) => i <= j
Unreadable(i) == BadDType(i) \/ Len(Keys[i].info.shape) > 2
FirstUnreadable == CHOOSE i \in TensorPositions :
                     Unreadable(i) /\ \A j \in TensorPositions : Unreadable(j) => i <= j
NamesUpTo(k) == {Keys[i].name : i \in 1..k}
Finished == pc \in {"returned", "raised"}

\* C4 as stated: with a tensor of unsupported dtype in the file,
\* load_to_actions raises the unsupported-type error at that tensor, returns
\* nothing, and touches no later tensor.
C4_AbortsAtBadDType ==
  /\ HasBadDType => returned = None
  /\ (HasBadDType /\ Finished)
     => /\ pc = "raised"
        /\ error = Some("ValueError: dtype is not supported")
        /\ tensor_idx = FirstBadDType
        /\ \A i \in 1..Len(fileLog) :
             fileLog[i][2] \in NamesUpTo(FirstBadDType) \cup {"__init__"}

\* C4 amended: with a tensor of unsupported dtype in the file,
\* load_to_actions returns nothing: it raises at the first tensor it cannot
\* read, the unsupported-type error when that tensor has the unsupported
\* dtype and torch's error of t() when it is an earlier tensor of 3 or more
\* dimensions; the actions assembled so far are dropped and no later tensor
\* is touched.
C4_AbortsAtFirstUnreadable ==
  /\ HasBadDType => returned = None
  /\ (HasBadDType /\ Finished)
     => /\ pc = "raised"
        /\ tensor_idx = FirstUnreadable
        /\ error = (IF BadDType(tensor_idx)
                    THEN Some("ValueError: dtype is not supported")
                    ELSE Some("RuntimeError: t() expects a tensor with <= 2 dimensions"))
        /\ actions = <<>>
        /\ \A i \in 1..Len(fileLog) :
             fileLog[i][2] \in NamesUpTo(FirstUnreadable) \cup {"__init__"}

\* C4 witness: the second tensor has the unsupported dtype; the first one
\* was read and its action assembled before the error dropped it.
C4_Witness ==
  /\ pc = "raised" /\ tensor_idx = 2
  /\ error = Some("ValueError: dtype is not supported")
  /\ Keys[1].name # "__metadata__"
  /\ \E i \in 1..Len(fileLog) : fileLog[i] = <<"read", Keys[1].name>>
  /\ actions = <<>> /\ returned = None

====
